---------------------------- MODULE Spec2Model ----------------------------
(***************************************************************************)
(* Model of electionguard's padded byte codec (electionguard/serialize.py) *)
(* and of the `setup` command (electionguard_cli/setup_election/           *)
(* setup_election_command.py).                                              *)
(*                                                                         *)
(* Byte strings are sequences of integers in 0..255.  A call that raises   *)
(* is recorded by the name of the exception and returns no value.          *)
(***************************************************************************)
EXTENDS Integers, Sequences, FiniteSets, TLC

(***************************************************************************)
(* Bounds of the model                                                     *)
(***************************************************************************)
\* beside the members of PaddedDataSize the codec is called with the plain
\* integer sizes 0..MaxSize; payloads reach MaxSize + 1 bytes, and long
\* payloads lie within MaxSize bytes of the capacity
MaxSize == 3
\* payload bytes are drawn from 0..MaxByte and 255
MaxByte == 1
\* the setup command is run with 1..MaxGuardians guardians
MaxGuardians == 3

(***************************************************************************)
(* Program constants                                                       *)
(***************************************************************************)
\* serialize.py:24  _PAD_BYTE = b"\x00"
PAD_BYTE == 0
\* serialize.py:25
PAD_INDICATOR_SIZE == 2
\* serialize.py:54  PaddedDataSize.Bytes_512 = 512 - PAD_INDICATOR_SIZE
Bytes_512 == 512 - PAD_INDICATOR_SIZE
\* serialize.py:51-54  the IntEnum PaddedDataSize has this one member
PaddedDataSize == {Bytes_512}

(***************************************************************************)
(* Python primitives used by the codec                                     *)
(***************************************************************************)
Min(a, b) == IF a < b THEN a ELSE b
Max(a, b) == IF a > b THEN a ELSE b

\* Python's index clamping for a slice bound i on a sequence of length n:
\* a negative bound counts from the end, and every bound is clamped to 0..n
SliceIndex(i, n) == IF i < 0 THEN Max(i + n, 0) ELSE Min(i, n)

\* s[lo:hi] of Python (0-based, half open, negative bounds allowed, never
\* raises); the result is empty when the clamped bounds cross
Slice(s, lo, hi) ==
    LET a == SliceIndex(lo, Len(s))
        b == SliceIndex(hi, Len(s))
    IN  IF b <= a THEN <<>> ELSE SubSeq(s, a + 1, b)

\* b * n for a one-byte bytes object b (n <= 0 gives b"")
Repeat(b, n) == [i \in 1..Max(n, 0) |-> b]

\* int.to_bytes(length, byteorder="big") succeeds iff 0 <= n < 256^length
RECURSIVE Pow256(_)
Pow256(k) == IF k = 0 THEN 1 ELSE 256 * Pow256(k - 1)

to_bytes_fits(n, length) == n >= 0 /\ n < Pow256(length)

\* variant: byteorder="little"
RECURSIVE to_bytes_little(_, _)
to_bytes_little(n, length) ==
    IF length = 0 THEN <<>>
    ELSE <<n % 256>> \o to_bytes_little(n \div 256, length - 1)

RECURSIVE to_bytes(_, _)
to_bytes(n, length) ==
    IF length = 0 THEN <<>>
    ELSE Append(to_bytes(n \div 256, length - 1), n % 256)

\* int.from_bytes(bs, byteorder="big"), unsigned; b"" gives 0
RECURSIVE from_bytes(_)
from_bytes(bs) ==
    IF bs = <<>> THEN 0
    ELSE 256 * from_bytes(SubSeq(bs, 1, Len(bs) - 1)) + bs[Len(bs)]

(***************************************************************************)
(* Results of calls                                                        *)
(***************************************************************************)
Returned(v) == [raised |-> "none", returned |-> TRUE, value |-> v]
Raised(e) == [raised |-> e, returned |-> FALSE, value |-> <<>>]
NotCalled == [raised |-> "none", returned |-> FALSE, value |-> <<>>]

(***************************************************************************)
(* Variants of _add_padding, each with one plausible slip                  *)
(***************************************************************************)
\* the payload is not cut to message_length
_add_padding_uncut(message, size, allow_truncation) ==
    LET truncating == Len(message) > size
        message_length == IF truncating /\ allow_truncation
                          THEN size ELSE Len(message)
        padding_length == size - message_length
    IN  IF truncating /\ ~allow_truncation
        THEN Raised("TruncationError")
        ELSE IF ~to_bytes_fits(padding_length, PAD_INDICATOR_SIZE)
        THEN Raised("OverflowError")
        ELSE Returned(to_bytes(padding_length, PAD_INDICATOR_SIZE)
                      \o message
                      \o Repeat(PAD_BYTE, padding_length))

\* the guard is message_length >= size
_add_padding_guard_ge(message, size, allow_truncation) ==
    LET truncating == Len(message) >= size
        message_length == IF truncating /\ allow_truncation
                          THEN size ELSE Len(message)
        padding_length == size - message_length
    IN  IF truncating /\ ~allow_truncation
        THEN Raised("TruncationError")
        ELSE IF ~to_bytes_fits(padding_length, PAD_INDICATOR_SIZE)
        THEN Raised("OverflowError")
        ELSE Returned(to_bytes(padding_length, PAD_INDICATOR_SIZE)
                      \o Slice(message, 0, message_length)
                      \o Repeat(PAD_BYTE, padding_length))

\* truncation keeps the last message_length bytes: message[-message_length:]
_add_padding_keep_tail(message, size, allow_truncation) ==
    LET truncating == Len(message) > size
        message_length == IF truncating /\ allow_truncation
                          THEN size ELSE Len(message)
        padding_length == size - message_length
    IN  IF truncating /\ ~allow_truncation
        THEN Raised("TruncationError")
        ELSE IF ~to_bytes_fits(padding_length, PAD_INDICATOR_SIZE)
        THEN Raised("OverflowError")
        ELSE Returned(to_bytes(padding_length, PAD_INDICATOR_SIZE)
                      \o Slice(message, Len(message) - message_length,
                               Len(message))
                      \o Repeat(PAD_BYTE, padding_length))

\* the indicator counts from the whole block: size + PAD_INDICATOR_SIZE - n
_add_padding_total_size(message, size, allow_truncation) ==
    LET truncating == Len(message) > size
        message_length == IF truncating /\ allow_truncation
                          THEN size ELSE Len(message)
        padding_length == size - message_length
    IN  IF truncating /\ ~allow_truncation
        THEN Raised("TruncationError")
        ELSE IF ~to_bytes_fits(padding_length + PAD_INDICATOR_SIZE,
                               PAD_INDICATOR_SIZE)
        THEN Raised("OverflowError")
        ELSE Returned(to_bytes(padding_length + PAD_INDICATOR_SIZE,
                               PAD_INDICATOR_SIZE)
                      \o Slice(message, 0, message_length)
                      \o Repeat(PAD_BYTE, padding_length))

(***************************************************************************)
(* serialize.py:69-84  _add_padding                                        *)
(***************************************************************************)
_add_padding(message, size, allow_truncation) ==
    LET truncating == Len(message) > size
        message_length == IF truncating /\ allow_truncation
                          THEN size ELSE Len(message)
        padding_length == size - message_length
    IN  IF truncating /\ ~allow_truncation
        THEN Raised("TruncationError")
        ELSE IF ~to_bytes_fits(padding_length, PAD_INDICATOR_SIZE)
        THEN Raised("OverflowError")
        ELSE Returned(to_bytes(padding_length, PAD_INDICATOR_SIZE)
                      \o Slice(message, 0, message_length)
                      \o Repeat(PAD_BYTE, padding_length))

(***************************************************************************)
(* Variants of _remove_padding                                             *)
(***************************************************************************)
\* message_end = size - padding_length, without the indicator's own width
_remove_padding_short_end(padded, size) ==
    LET padding_length == from_bytes(Slice(padded, 0, PAD_INDICATOR_SIZE))
        message_end == size - padding_length
    IN  Returned(Slice(padded, PAD_INDICATOR_SIZE, message_end))

\* a hardened decoder that rejects an indicator outside 0..size
_remove_padding_hardened(padded, size) ==
    LET padding_length == from_bytes(Slice(padded, 0, PAD_INDICATOR_SIZE))
        message_end == size + PAD_INDICATOR_SIZE - padding_length
    IN  IF padding_length > size
        THEN Raised("MalformedBlockError")
        ELSE Returned(Slice(padded, PAD_INDICATOR_SIZE, message_end))

(***************************************************************************)
(* serialize.py:87-92  _remove_padding                                     *)
(***************************************************************************)
_remove_padding(padded, size) ==
    LET padding_length == from_bytes(Slice(padded, 0, PAD_INDICATOR_SIZE))
        message_end == size + PAD_INDICATOR_SIZE - padding_length
    IN  Returned(Slice(padded, PAD_INDICATOR_SIZE, message_end))

(***************************************************************************)
(* serialize.py:61-62  padded_encode, from the bytes to_raw(data).encode() *)
(* on: raw stands for those bytes (to_raw is json.dumps, outside this      *)
(* model).  allow_truncation is not passed, so it has its default, False.  *)
(***************************************************************************)
\* variant: the call passes allow_truncation=True
padded_encode_truncating(raw, size) == _add_padding(raw, size, TRUE)

padded_encode(raw, size) == _add_padding(raw, size, FALSE)

(***************************************************************************)
(* State                                                                   *)
(***************************************************************************)
VARIABLES
    \* --- the codec: the call in progress and its results
    origin,            \* where `padded` comes from: "none", "_add_padding",
                       \* "padded_encode" or "received" (a stored block)
    message,           \* the payload given to the encoder
    size,              \* the size argument given to encoder and decoder
    allow_truncation,  \* the flag given to _add_padding
    encoded,           \* result of the encoder call
    padded,            \* the block handed to the decoder
    decoded,           \* result of _remove_padding(padded, size)
    \* --- the setup command
    pc,                \* the statement SetupElectionCommand executes next
    args,              \* <<guardian_count, quorum, manifest, out>>
    election_inputs,   \* local variables of the command
    joint_key,
    build_election_results,
    calls,             \* the collaborator calls made so far, in order
    files_written      \* OutputSetupFilesStep().output has returned

codec_vars == <<origin, message, size, allow_truncation, encoded, padded, decoded>>
setup_vars == <<pc, args, election_inputs, joint_key, build_election_results,
                calls, files_written>>
vars == <<codec_vars, setup_vars>>

(***************************************************************************)
(* Inputs                                                                  *)
(***************************************************************************)
ByteVals == (0..MaxByte) \cup {255}
SeqsUpTo(S, n) == UNION {[1..k -> S] : k \in 0..n}
\* a long payload with distinct neighbouring bytes
Pattern(n, o) == [i \in 1..n |-> (i + o) % 256]
abc == <<97, 98, 99>>

\* the values passed as `size`.  The annotation `size: PaddedDataSize` is
\* not enforced at run time and neither function tests membership, so the
\* plain integers 0..MaxSize are arguments the code accepts as well; they
\* are not members of the enum.
SizeArgs == PaddedDataSize \cup (0..MaxSize)

\* byte strings of up to MaxSize + 1 bytes
ShortMessages == SeqsUpTo(ByteVals, MaxSize + 1)
\* what a long payload may end in (0x00 bytes among them)
Tails == SeqsUpTo(ByteVals, 2)

\* payloads offered with size s: every short byte string and, when s is
\* long enough, payloads of s - MaxSize - 1 .. s + 3 bytes
Messages(s) ==
    ShortMessages
    \cup {abc}
    \cup (IF s <= MaxSize THEN {}
          ELSE {Pattern(n, 0) \o t : n \in (s - MaxSize - 1)..(s + 1),
                                     t \in Tails})

\* indicator values of stored blocks: every value around the block length
\* and some far out of range
Indicators(s) ==
    IF s <= MaxSize
    THEN (0..(2 * (MaxSize + PAD_INDICATOR_SIZE) + 3)) \cup {255, 256, 65535}
    ELSE {0, 1, s - 3, s, s + 1, s + 2, s + 3, s + 200, 2 * s + 3, 2 * s + 4,
          2 * s + 5, 65535}

\* stored blocks of any length: shorter than an indicator, or an indicator
\* followed by any bytes
Blocks(s) ==
    {<<>>} \cup {<<b>> : b \in ByteVals}
    \cup {to_bytes(i, PAD_INDICATOR_SIZE) \o body :
            i \in Indicators(s),
            body \in IF s <= MaxSize
                     THEN ShortMessages
                     ELSE {Pattern(n, 0) \o t : n \in (s - 2)..s,
                                                t \in SeqsUpTo(ByteVals, 1)}}

(***************************************************************************)
(* Initial state: nothing called yet                                       *)
(***************************************************************************)
Unset == <<"unset">>

CodecInit ==
    /\ origin = "none"
    /\ message = <<>>
    /\ size = Bytes_512
    /\ allow_truncation = FALSE
    /\ encoded = NotCalled
    /\ padded = <<>>
    /\ decoded = NotCalled

SetupInit ==
    /\ pc = "idle"
    /\ args = Unset
    /\ election_inputs = Unset
    /\ joint_key = Unset
    /\ build_election_results = Unset
    /\ calls = <<>>
    /\ files_written = FALSE

Init == CodecInit /\ SetupInit

(***************************************************************************)
(* Codec actions.  The codec's functions are pure and keep nothing between *)
(* calls, so a behaviour follows one exchange: a block is produced by an   *)
(* encoder call or read from storage, and is then decoded.                 *)
(***************************************************************************)
\* a caller runs _add_padding(m, s, a)
Call_add_padding ==
    /\ origin = "none"
    /\ \E s \in SizeArgs, a \in BOOLEAN :
       \E m \in Messages(s) :
           /\ origin' = "_add_padding"
           /\ message' = m
           /\ size' = s
           /\ allow_truncation' = a
           /\ encoded' = _add_padding(m, s, a)
           /\ padded' = encoded'.value
           /\ decoded' = NotCalled
           /\ UNCHANGED setup_vars

\* a caller runs padded_encode(data, s), where raw = to_raw(data).encode()
Call_padded_encode ==
    /\ origin = "none"
    /\ \E s \in SizeArgs :
       \E raw \in Messages(s) :
           /\ origin' = "padded_encode"
           /\ message' = raw
           /\ size' = s
           /\ allow_truncation' = FALSE
           /\ encoded' = padded_encode(raw, s)
           /\ padded' = encoded'.value
           /\ decoded' = NotCalled
           /\ UNCHANGED setup_vars

\* a block read back from storage, possibly corrupted, is to be decoded
Receive ==
    /\ origin = "none"
    /\ \E s \in SizeArgs :
       \E b \in Blocks(s) :
           /\ origin' = "received"
           /\ message' = <<>>
           /\ size' = s
           /\ allow_truncation' = FALSE
           /\ encoded' = NotCalled
           /\ padded' = b
           /\ decoded' = NotCalled
           /\ UNCHANGED setup_vars

\* a caller runs _remove_padding(padded, size) on the block at hand
Call_remove_padding ==
    /\ origin = "received" \/ encoded.returned
    /\ ~decoded.returned /\ decoded.raised = "none"
    /\ decoded' = _remove_padding(padded, size)
    /\ UNCHANGED <<origin, message, size, allow_truncation, encoded, padded>>
    /\ UNCHANGED setup_vars

CodecNext ==
    \/ Call_add_padding
    \/ Call_padded_encode
    \/ Receive
    \/ Call_remove_padding

Spec == Init /\ [][CodecNext]_vars

(***************************************************************************)
(* setup_election_command.py:35-50  SetupElectionCommand                   *)
(*                                                                         *)
(* The four collaborators are external.  What a collaborator returns is    *)
(* kept as the term <<step, arguments>>; a collaborator may return or      *)
(* raise, and an exception leaves the command at once.                     *)
(***************************************************************************)
Manifests == {"manifest_a", "manifest_b"}
OutDirs == {"out_a", "out_b"}

\* the value returned by collaborator call `step(a)`
Result(step, a) == <<step, a>>
\* election_inputs.guardians (line 46)
Guardians(inputs) == <<"guardians", inputs>>

\* variant: the election is built before the key ceremony is run
NextStatement_swapped(stmt) ==
    CASE stmt = "get_inputs" -> "build_election_with_key"
      [] stmt = "build_election_with_key" -> "run_key_ceremony"
      [] stmt = "run_key_ceremony" -> "output"
      [] stmt = "output" -> "done"

\* the statement that follows statement `stmt` in the body (lines 43-50)
NextStatement(stmt) ==
    CASE stmt = "get_inputs" -> "run_key_ceremony"
      [] stmt = "run_key_ceremony" -> "build_election_with_key"
      [] stmt = "build_election_with_key" -> "output"
      [] stmt = "output" -> "done"

\* a collaborator call made by the statement at pc, with its outcome
Call(a, outcome) == [step |-> pc, args |-> a, outcome |-> outcome]
Outcomes == {"returns", "raises"}

\* click runs the command with the parsed options (lines 9-37)
Invoke ==
    /\ pc = "idle"
    /\ \E guardian_count \in 1..MaxGuardians, quorum \in 1..MaxGuardians,
          manifest \in Manifests, out \in OutDirs :
           args' = <<guardian_count, quorum, manifest, out>>
    /\ pc' = "get_inputs"
    /\ UNCHANGED <<election_inputs, joint_key, build_election_results,
                   calls, files_written>>
    /\ UNCHANGED codec_vars

\* lines 43-45
GetInputs ==
    /\ pc = "get_inputs"
    /\ \E o \in Outcomes :
        /\ calls' = Append(calls, Call(args, o))
        /\ IF o = "returns"
           THEN /\ election_inputs' = Result(pc, args)
                /\ pc' = NextStatement(pc)
           ELSE /\ pc' = "raised"
                /\ UNCHANGED election_inputs
    /\ UNCHANGED <<args, joint_key, build_election_results, files_written>>
    /\ UNCHANGED codec_vars

\* line 46
RunKeyCeremony ==
    /\ pc = "run_key_ceremony"
    /\ \E o \in Outcomes :
        LET a == <<Guardians(election_inputs)>>
        IN  /\ calls' = Append(calls, Call(a, o))
            /\ IF o = "returns"
               THEN /\ joint_key' = Result(pc, a)
                    /\ pc' = NextStatement(pc)
               ELSE /\ pc' = "raised"
                    /\ UNCHANGED joint_key
    /\ UNCHANGED <<args, election_inputs, build_election_results, files_written>>
    /\ UNCHANGED codec_vars

\* lines 47-49
BuildElectionWithKey ==
    /\ pc = "build_election_with_key"
    /\ \E o \in Outcomes :
        LET a == <<election_inputs, joint_key>>
        IN  /\ calls' = Append(calls, Call(a, o))
            /\ IF o = "returns"
               THEN /\ build_election_results' = Result(pc, a)
                    /\ pc' = NextStatement(pc)
               ELSE /\ pc' = "raised"
                    /\ UNCHANGED build_election_results
    /\ UNCHANGED <<args, election_inputs, joint_key, files_written>>
    /\ UNCHANGED codec_vars

\* line 50
Output ==
    /\ pc = "output"
    /\ \E o \in Outcomes :
        LET a == <<election_inputs, build_election_results>>
        IN  /\ calls' = Append(calls, Call(a, o))
            /\ IF o = "returns"
               THEN /\ files_written' = TRUE
                    /\ pc' = NextStatement(pc)
               ELSE /\ pc' = "raised"
                    /\ UNCHANGED files_written
    /\ UNCHANGED <<args, election_inputs, joint_key, build_election_results>>
    /\ UNCHANGED codec_vars

SetupNext ==
    \/ Invoke
    \/ GetInputs
    \/ RunKeyCeremony
    \/ BuildElectionWithKey
    \/ Output

SetupSpec == Init /\ [][SetupNext]_vars

(***************************************************************************)
(* Properties of the codec (checked under Spec)                            *)
(***************************************************************************)
\* an encoder call (_add_padding, directly or through padded_encode) was made
EncoderRan == origin \in {"_add_padding", "padded_encode"}
\* the decoder has been called on the block at hand
DecoderRan == decoded.returned \/ decoded.raised # "none"
\* the usable payload bytes and the whole block length of the size class
Capacity == size
TotalSize == size + PAD_INDICATOR_SIZE
\* the first `k` bytes of a payload, in order
Prefix(p, k) == [i \in 1..k |-> p[i]]
\* the unsigned big-endian number in the first two bytes of a block
IndicatorOf(b) == 256 * b[1] + b[2]

\* C1: round trip.  Whenever a payload of at most `capacity` bytes (the
\* empty one, the longest one and those ending in 0x00 included) is encoded
\* with allow_truncation = False, the encoder returns a block, and decoding
\* that block with the same size gives back exactly the payload.
C1_RoundTrip ==
    (EncoderRan /\ ~allow_truncation /\ Len(message) <= Capacity)
        => /\ encoded.returned
           /\ DecoderRan => (decoded.returned /\ decoded.value = message)

\* C1 witness: a 510-byte payload ending in 0x00 went through encode and
\* decode in the 512 class
C1_Witness ==
    /\ origin = "_add_padding" /\ ~allow_truncation
    /\ size = Bytes_512 /\ Len(message) = size /\ message[size] = 0
    /\ decoded.returned /\ decoded.value = message

\* C2: fixed length.  Every block _add_padding returns has exactly
\* capacity + 2 bytes, and it does return one for any payload when
\* truncation is allowed and for any payload that fits when it is not.
C2_FixedLength ==
    EncoderRan
        => /\ (allow_truncation \/ Len(message) <= Capacity) => encoded.returned
           /\ encoded.returned => Len(encoded.value) = TotalSize

\* C2 witness: an oversize payload encoded with truncation into a 512-byte
\* block
C2_Witness ==
    /\ origin = "_add_padding" /\ allow_truncation
    /\ size = Bytes_512 /\ Len(message) > Capacity
    /\ encoded.returned /\ Len(encoded.value) = 512

\* C3: truncation guard.  With allow_truncation = False a payload longer
\* than capacity makes _add_padding raise TruncationError and return no
\* block; a payload of at most capacity bytes never raises TruncationError.
C3_TruncationGuard ==
    EncoderRan
        => /\ (~allow_truncation /\ Len(message) > Capacity)
                => /\ encoded.raised = "TruncationError"
                   /\ ~encoded.returned
                   /\ padded = <<>>
                   /\ ~DecoderRan
           /\ Len(message) <= Capacity => encoded.raised # "TruncationError"

\* C3 witness: 511 bytes against the 512 class, truncation not allowed
C3_Witness ==
    /\ origin = "_add_padding" /\ ~allow_truncation
    /\ size = Bytes_512 /\ Len(message) = 511
    /\ encoded.raised = "TruncationError"

\* C4: lossy truncation path.  With allow_truncation = True a payload longer
\* than capacity is encoded into a block with indicator 0 and no filler,
\* which decodes to the first `capacity` bytes of the payload.
C4_LossyTruncation ==
    (EncoderRan /\ allow_truncation /\ Len(message) > Capacity)
        => /\ encoded.returned
           /\ Len(encoded.value) = TotalSize
           /\ IndicatorOf(encoded.value) = 0
           /\ \A i \in 1..Capacity : encoded.value[PAD_INDICATOR_SIZE + i] = message[i]
           /\ DecoderRan => /\ decoded.returned
                            /\ decoded.value = Prefix(message, Capacity)

\* C4 witness: 511 bytes against the 512 class, truncation allowed, decoded
\* to 510 bytes
C4_Witness ==
    /\ origin = "_add_padding" /\ allow_truncation
    /\ size = Bytes_512 /\ Len(message) = 511
    /\ decoded.returned /\ Len(decoded.value) = 510

\* C5: wire layout.  For a payload of n <= capacity bytes the block holds
\* the big-endian filler count k = capacity - n in bytes [0:2], the payload
\* in bytes [2:2+n] with 2+n = total - k, and exactly k bytes 0x00 after it.
C5_WireLayout ==
    (EncoderRan /\ Len(message) <= Capacity)
        => /\ encoded.returned
           /\ LET B == encoded.value
                  n == Len(message)
                  k == Capacity - n
              IN  /\ k >= 0 /\ k <= Capacity
                  /\ B[1] = k \div 256 /\ B[2] = k % 256
                  /\ 2 + n = TotalSize - k
                  /\ \A i \in 1..n : B[2 + i] = message[i]
                  /\ Len(B) - (2 + n) = k
                  /\ \A i \in (2 + n + 1)..Len(B) : B[i] = 0

\* C5 witness: b"abc" in the 512 class gives indicator 507 = 1 * 256 + 251
C5_Witness ==
    /\ EncoderRan /\ size = Bytes_512 /\ message = abc
    /\ encoded.returned
    /\ encoded.value[1] = 1 /\ encoded.value[2] = 251
    /\ Len(encoded.value) = 512 /\ encoded.value[5] = 99
    /\ encoded.value[6] = 0

\* C6 as stated, for the 512-byte class: the indicator equals size - n,
\* where size is the whole block length (capacity + 2 = 512) and n the
\* payload length.
C6_IndicatorIsTotalMinusLen ==
    (EncoderRan /\ size = Bytes_512 /\ Len(message) <= Capacity
                /\ encoded.returned)
        => IndicatorOf(encoded.value) = TotalSize - Len(message)

\* C6 as amended: the indicator equals capacity - n, the number of filler
\* bytes, where capacity is the whole block length minus 2.
C6_IndicatorIsCapacityMinusLen ==
    (EncoderRan /\ Len(message) <= Capacity)
        => /\ encoded.returned
           /\ IndicatorOf(encoded.value) = (TotalSize - 2) - Len(message)

\* C6 witness: a 3-byte payload in the 512 class has indicator 507, not 509
C6_Witness ==
    /\ EncoderRan /\ size = Bytes_512 /\ Len(message) = 3
    /\ encoded.returned /\ IndicatorOf(encoded.value) = 507

\* the bytes Python's block[2:e] denotes for a block of L bytes: a negative
\* e counts from the end of the block, and the bounds are clamped to 0..L
SliceEnd(e, L) == IF e >= 0 THEN (IF e <= L THEN e ELSE L)
                  ELSE (IF L + e >= 0 THEN L + e ELSE 0)
BlockFrom2To(b, e) ==
    [i \in 1..(IF SliceEnd(e, Len(b)) > 2 THEN SliceEnd(e, Len(b)) - 2 ELSE 0)
        |-> b[i + 2]]
\* the indicator a block carries (a block shorter than the indicator is read
\* as far as it goes)
ReceivedIndicator ==
    IF Len(padded) >= 2 THEN IndicatorOf(padded)
    ELSE IF Len(padded) = 1 THEN padded[1] ELSE 0

\* C7: permissive decode.  _remove_padding checks nothing: for any block and
\* any indicator 0..65535 it returns block[2 : total - indicator] and never
\* raises; a whole block with indicator in 0..capacity gives
\* capacity - indicator bytes, and an indicator above capacity still gives a
\* byte string (the empty one while the indicator is at most the block
\* length).
C7_PermissiveDecode ==
    (origin = "received" /\ DecoderRan)
        => /\ decoded.returned /\ decoded.raised = "none"
           /\ decoded.value = BlockFrom2To(padded, TotalSize - ReceivedIndicator)
           /\ (Len(padded) = TotalSize /\ ReceivedIndicator <= Capacity)
                => Len(decoded.value) = Capacity - ReceivedIndicator
           /\ (Len(padded) = TotalSize /\ ReceivedIndicator > Capacity
                 /\ ReceivedIndicator <= TotalSize)
                => decoded.value = <<>>

\* C7 witness: an indicator beyond the block length makes the end of the
\* slice negative, and bytes counted from the end of a 512-byte block come
\* back
C7_Witness ==
    /\ origin = "received" /\ decoded.returned /\ size = Bytes_512
    /\ Len(padded) = TotalSize /\ ReceivedIndicator > TotalSize
    /\ decoded.value # <<>>

\* C9: padded_encode never truncates.  For serialized bytes longer than
\* capacity padded_encode raises TruncationError and returns no block, and
\* no block it returns decodes to anything but the whole serialized bytes.
C9_PaddedEncodeNeverTruncates ==
    origin = "padded_encode"
        => /\ Len(message) > Capacity
                => /\ encoded.raised = "TruncationError"
                   /\ ~encoded.returned /\ padded = <<>>
           /\ encoded.returned => Len(message) <= Capacity
           /\ (encoded.returned /\ DecoderRan)
                => decoded.returned /\ decoded.value = message

\* C9 witness: 511 serialized bytes against the 512 class
C9_Witness ==
    /\ origin = "padded_encode" /\ size = Bytes_512 /\ Len(message) = 511
    /\ encoded.raised = "TruncationError" /\ ~encoded.returned

(***************************************************************************)
(* Properties of the setup command (checked under SetupSpec)               *)
(***************************************************************************)
StepOrder == <<"get_inputs", "run_key_ceremony", "build_election_with_key",
               "output">>
ResultOf(call) == Result(call.step, call.args)

\* C10: setup command ordering.  The collaborator calls made so far are a
\* prefix of get_inputs, run_key_ceremony, build_election_with_key, output
\* (so each at most once, in that order); every call but the last has
\* returned, so a failure stops the command; each call's arguments are the
\* results of the earlier calls the code passes it; and the output step has
\* returned only after all four calls returned.
C10_SetupOrdering ==
    /\ Len(calls) <= Len(StepOrder)
    /\ \A i \in 1..Len(calls) : calls[i].step = StepOrder[i]
    /\ \A i \in 1..(Len(calls) - 1) : calls[i].outcome = "returns"
    /\ Len(calls) >= 1 => calls[1].args = args
    /\ Len(calls) >= 2 => calls[2].args = <<Guardians(ResultOf(calls[1]))>>
    /\ Len(calls) >= 3 => calls[3].args = <<ResultOf(calls[1]), ResultOf(calls[2])>>
    /\ Len(calls) >= 4 => calls[4].args = <<ResultOf(calls[1]), ResultOf(calls[3])>>
    /\ pc = "raised" => (calls # <<>> /\ calls[Len(calls)].outcome = "raises")
    /\ files_written
         => /\ Len(calls) = 4
            /\ \A i \in 1..4 : calls[i].outcome = "returns"

\* C10 witness: a run in which the key ceremony returned, the build raised
\* and nothing was written
C10_Witness ==
    /\ pc = "raised" /\ Len(calls) = 3
    /\ calls[2].outcome = "returns" /\ calls[3].outcome = "raises"
    /\ ~files_written

=============================================================================
